---- MODULE Spec2Model ----
(***************************************************************************)
(* Model of src/scraper.py: the catalogue crawler (Scraper, LocalStorage,  *)
(* Notifier, ScrapingManager and the /scrape/ endpoint).                   *)
(*                                                                         *)
(* Prices are Python floats; the natural n stands for the float n.0, and   *)
(* PyInt(n) for the Python int n, which is not a float.                    *)
(* A catalogue (ScrapingManager.data_cache, a dict that keeps insertion    *)
(* order) is a sequence of entries [title, price, path].                   *)
(***************************************************************************)
EXTENDS Naturals, Integers, Sequences, FiniteSets, TLC

VARIABLES
    pc,             \* control position of the request / session
    x_token,        \* credential of the request (read_items)
    pages,          \* pages argument of the request
    file,           \* content of scraped_data.json (LocalStorage.file_path)
    data_cache,     \* ScrapingManager.data_cache
    page_num,       \* loop variable of scrape_and_store
    max_retries,    \* argument of fetch_page
    retries,        \* local of fetch_page
    html,           \* value returned by fetch_page
    products,       \* argument of db_cache_extend (products_info)
    idx,            \* position of db_cache_extend's second loop in products
    notifications,  \* messages passed to Notifier.notify, in order
    exc,            \* exception that left the session ("none" when none)
    events,         \* history: HTTP attempts and sleeps of the current fetch_page call
    stats,          \* history: inserts / updates / skips of the current db_cache_extend call
    sightings,      \* history: the products db_cache_extend has taken up, in order
    dlRequests,     \* history: evaluations of self.download_image(...) per title (line 295)
    dlAttempts,     \* history: HTTP GETs made by download_image per title (line 324)
    failedPages,    \* history: pages whose fetch_page returned None
    fetchedTitles,  \* history: titles listed on the pages fetched with status 200
    merged,         \* history: data_cache as of the last completely reconciled page
    saves,          \* history: number of save_to_json calls that wrote the file
    baseline,       \* history: the catalogue built by db_cache_fetch
    pass,           \* two-pass reconcile harness: number of the running pass
    afterFirst      \* two-pass reconcile harness: data_cache after the first pass

vars == <<pc, x_token, pages, file, data_cache, page_num, max_retries, retries,
          html, products, idx, notifications, exc, events, stats, sightings,
          dlRequests, dlAttempts, failedPages, fetchedTitles, merged, saves,
          baseline, pass, afterFirst>>

(***************************************************************************)
(* Bounds of the model and constants of the program.                       *)
(***************************************************************************)
MaxPages == 2          \* largest valid pages argument explored
MaxProducts == 2       \* longest product listing of a page
MaxStored == 2         \* longest record list of the persisted file
MaxRetriesArg == 3     \* largest max_retries explored for fetch_page alone

DefaultMaxRetries == 3 \* fetch_page(url, max_retries=3)
PagesGe == 1           \* Query(ge=1)
PagesLt == 120         \* Query(lt=120)
StaticToken == "my_static_token"

Titles == {"A", "B"}
Prices == {1, 2}
ImageSrc == "http://site/i.jpg"

PyInt(n) == n + 100
IsFloat(v) == v < 100                           \* isinstance(v, float)

SeqsUpTo(S, n) == UNION {[1..k -> S] : k \in 0..n}

(***************************************************************************)
(* The dict data_cache: title -> [price, path], in insertion order.        *)
(***************************************************************************)
Keys(cache) == {cache[i].title : i \in 1..Len(cache)}
HasKey(cache, title) == title \in Keys(cache)
IndexOf(cache, title) == CHOOSE i \in 1..Len(cache) : cache[i].title = title
PriceOf(cache, title) == cache[IndexOf(cache, title)].price
PathOf(cache, title) == cache[IndexOf(cache, title)].path
UniqueKeys(cache) ==
    \A i, j \in 1..Len(cache) : cache[i].title = cache[j].title => i = j

\* self.data_cache[title] = [price, path]: a new key goes last, an existing
\* key keeps its position and takes the new value.
DictSet(cache, title, price, path) ==
    IF HasKey(cache, title)
    THEN [cache EXCEPT ![IndexOf(cache, title)] =
              [title |-> title, price |-> price, path |-> path]]
    ELSE Append(cache, [title |-> title, price |-> price, path |-> path])

\* {p["product_title"]: [p["product_price"], p["path_to_image"]] for p in data}
RECURSIVE DictFromList(_)
DictFromList(data) ==
    IF data = <<>> THEN <<>>
    ELSE LET n == Len(data)
             p == data[n]
         IN DictSet(DictFromList(SubSeq(data, 1, n - 1)),
                    p.product_title, p.product_price, p.path_to_image)

\* Faulty variants: the last entry is left out; the entries come out in
\* reverse order.
db_cache_to_dictDropsLast(cache) ==
    [i \in 1..(Len(cache) - 1) |->
        [product_title |-> cache[i].title,
         product_price |-> cache[i].price,
         path_to_image |-> cache[i].path]]
db_cache_to_dictReversed(cache) ==
    [i \in 1..Len(cache) |->
        [product_title |-> cache[Len(cache) + 1 - i].title,
         product_price |-> cache[Len(cache) + 1 - i].price,
         path_to_image |-> cache[Len(cache) + 1 - i].path]]

\* [{"product_title": k, "product_price": v[0], "path_to_image": v[1]} ...]
db_cache_to_dict(cache) ==
    [i \in 1..Len(cache) |->
        [product_title |-> cache[i].title,
         product_price |-> cache[i].price,
         path_to_image |-> cache[i].path]]

(***************************************************************************)
(* LocalStorage.  The file is absent, not decodable as JSON, or a JSON     *)
(* list of objects; shape says whether an object has the three keys with   *)
(* a str, a float and a str ("ok"), lacks a key, or has a non-float price. *)
(* A file of kind "bad_encoding" holds bytes that are not text in the      *)
(* encoding open() uses.                                                   *)
(***************************************************************************)
ItemValid(item) == item.shape = "ok"

\* Faulty variant: the price is written as a whole number, which json.load
\* reads back as an int.
FileItemPriceAsInt(p) ==
    [product_title |-> p.product_title, product_price |-> PyInt(p.product_price),
     path_to_image |-> p.path_to_image, shape |-> "int_price"]
\* json.dump writes a float as a float and an int as an int.
FileItem(p) ==
    [product_title |-> p.product_title, product_price |-> p.product_price,
     path_to_image |-> p.path_to_image,
     shape |-> IF IsFloat(p.product_price) THEN "ok" ELSE "int_price"]
LoadedItem(item) ==
    [product_title |-> item.product_title, product_price |-> item.product_price,
     path_to_image |-> item.path_to_image]

\* The exception load_from_json lets through: f.read() raises
\* UnicodeDecodeError, a ValueError that is no json.JSONDecodeError, and the
\* except clauses of lines 199-207 name FileNotFoundError, JSONDecodeError
\* and AssertionError only.
load_raises(f) ==
    IF f.kind = "bad_encoding" THEN "UnicodeDecodeError" ELSE "none"

\* The list load_from_json returns, when it returns.
load_from_json(f) ==
    IF f.kind = "absent" THEN <<>>                       \* FileNotFoundError
    ELSE IF f.kind = "undecodable" THEN <<>>             \* JSONDecodeError
    ELSE IF \E i \in 1..Len(f.data) : ~ItemValid(f.data[i])
         THEN <<>>                                       \* AssertionError
         ELSE [i \in 1..Len(f.data) |-> LoadedItem(f.data[i])]

\* The assertions on a list of persisted records (lines 171-177, 268-274).
RecordsAccepted(data) ==
    \A i \in 1..Len(data) : IsFloat(data[i].product_price)

\* json.dump(data, f), once the assertions of lines 171-177 have passed.
save_to_json(data) ==
    [kind |-> "list", data |-> [i \in 1..Len(data) |-> FileItem(data[i])]]

(***************************************************************************)
(* Scraper._scrape_product_info / scrape_product_info.  A listing entry    *)
(* has a data-title, an image src and a price element; the price text is   *)
(* (present, "Starting at:" prefix, has a rupee symbol, numeric portion).  *)
(***************************************************************************)
\* Faulty variant: int(price_text) in place of float(price_text).
NumValueAsInt(num) == CASE num = "1" -> PyInt(1) [] num = "2" -> PyInt(2) [] OTHER -> PyInt(0)
NumValue(num) == CASE num = "1" -> 1 [] num = "2" -> 2 [] OTHER -> 0
IsNumber(num) == num \in {"1", "2"}

\* Outcome of the price extraction of lines 130-144.
ParsePrice(price) ==
    IF ~price.present THEN [raised |-> "none", value |-> 0]
    ELSE IF ~price.symbol THEN [raised |-> "IndexError", value |-> 0]  \* split(...)[1]
    ELSE IF price.num = "" THEN [raised |-> "none", value |-> 0]
    ELSE IF IsNumber(price.num) THEN [raised |-> "none", value |-> NumValue(price.num)]
    ELSE [raised |-> "ValueError", value |-> 0]                         \* float(...)

scrape_one(li) ==
    LET pp == ParsePrice(li.price)
    IN [raised |-> pp.raised,
        product |-> [product_title |-> li.title, image_src |-> li.img,
                     product_price |-> pp.value]]

\* The list of products of a page, or the exception of the first entry that raises.
scrape_product_info(content) ==
    IF ~content.ul THEN [raised |-> "none", products |-> <<>>]
    ELSE LET rs == [i \in 1..Len(content.lis) |-> scrape_one(content.lis[i])]
             bad == {i \in 1..Len(rs) : rs[i].raised # "none"}
         IN IF bad = {}
            THEN [raised |-> "none",
                  products |-> [i \in 1..Len(rs) |-> rs[i].product]]
            ELSE [raised |-> rs[CHOOSE i \in bad : \A j \in bad : i <= j].raised,
                  products |-> <<>>]

(***************************************************************************)
(* download_image, a function of the module (line 308 starts at column 0), *)
(* and the attributes an instance of ScrapingManager has.                  *)
(***************************************************************************)
Ext(url) == IF url = ImageSrc THEN "jpg" ELSE ""        \* url.split(".")[-1]
ImagePath(url, title) == "product_images/" \o title \o "." \o Ext(url)

ScrapingManagerAttrs ==
    {"scraper", "storage", "notifier", "data_cache", "scrape_and_store",
     "db_cache_fetch", "db_cache_extend", "db_cache_to_dict"}
\* self.download_image at line 295 is an attribute lookup on the instance.
DownloadResolves == "download_image" \in ScrapingManagerAttrs

(***************************************************************************)
(* Inputs: what the environment can hand to the program.                   *)
(***************************************************************************)
StoredPath(title) == "img/" \o title \o ".jpg"

PriceText(symbol, num) ==
    [present |-> TRUE, starting |-> FALSE, symbol |-> symbol, num |-> num]
\* Price texts of the pages of a session: two prices and a text without the
\* currency symbol.
SessionPriceTexts ==
    {PriceText(TRUE, "1"), PriceText(TRUE, "2"), PriceText(FALSE, "1")}
Lis == [title : Titles, img : {ImageSrc}, price : SessionPriceTexts]
PageContents ==
    {[ul |-> FALSE, lis |-> <<>>]}
        \cup {[ul |-> TRUE, lis |-> s] : s \in SeqsUpTo(Lis, MaxProducts)}

ValidItems ==
    {[product_title |-> t, product_price |-> p, path_to_image |-> StoredPath(t),
      shape |-> "ok"] : t \in Titles, p \in Prices}
InvalidItems ==
    {[product_title |-> "A", product_price |-> PyInt(1), path_to_image |-> StoredPath("A"),
      shape |-> "int_price"]}
StoreFiles ==
    {[kind |-> "absent", data |-> <<>>], [kind |-> "undecodable", data |-> <<>>],
     [kind |-> "bad_encoding", data |-> <<>>]}
        \cup {[kind |-> "list", data |-> s] :
                 s \in SeqsUpTo(ValidItems \cup InvalidItems, MaxStored)}

\* Catalogues db_cache_fetch can build, and product lists the parser can return.
Catalogues ==
    {DictFromList([i \in 1..Len(s) |-> LoadedItem(s[i])]) :
        s \in SeqsUpTo(ValidItems, MaxStored)}
Products == [product_title : Titles, image_src : {ImageSrc}, product_price : Prices]
ProductLists == SeqsUpTo(Products, MaxProducts)

NoneHtml == [none |-> TRUE, ul |-> FALSE, lis |-> <<>>]
ZeroStats == [inserts |-> 0, updates |-> 0, skips |-> 0]

(***************************************************************************)
(* Initial states.                                                         *)
(***************************************************************************)
History0 ==
    /\ notifications = <<>>
    /\ exc = "none"
    /\ events = <<>>
    /\ stats = ZeroStats
    /\ sightings = <<>>
    /\ dlRequests = [t \in Titles |-> 0]
    /\ dlAttempts = [t \in Titles |-> 0]
    /\ failedPages = {}
    /\ fetchedTitles = {}
    /\ merged = <<>>
    /\ saves = 0
    /\ baseline = <<>>
    /\ afterFirst = <<>>

\* A request arrives at GET /scrape/ (ScrapingManager.__init__: data_cache = {}).
Init ==
    /\ pc = "request"
    /\ x_token \in {StaticToken, "wrong_token"}
    /\ pages \in (0..MaxPages) \cup {PagesLt}
    /\ file \in StoreFiles
    /\ data_cache = <<>>
    /\ page_num = 0
    /\ max_retries = DefaultMaxRetries
    /\ retries = 0
    /\ html = NoneHtml
    /\ products = <<>>
    /\ idx = 0
    /\ pass = 0
    /\ History0

(***************************************************************************)
(* read_items: the endpoint (lines 355-376).                               *)
(***************************************************************************)
PagesValid(n) == PagesGe <= n /\ n < PagesLt
\* Faulty variant: the credential is not compared.
TokenValidAlways(tok) == TRUE
TokenValid(tok) == tok = StaticToken

ReadItems ==
    /\ pc = "request"
    /\ IF ~PagesValid(pages)
       THEN pc' = "rejected" /\ exc' = "RequestValidationError"
       ELSE IF ~TokenValid(x_token)
            THEN pc' = "rejected" /\ exc' = "AssertionError"
            ELSE pc' = "load" /\ exc' = exc
    /\ UNCHANGED <<x_token, pages, file, data_cache, page_num, max_retries,
                   retries, html, products, idx, notifications, events, stats,
                   sightings, dlRequests, dlAttempts, failedPages,
                   fetchedTitles, merged, saves, baseline, pass, afterFirst>>

(***************************************************************************)
(* scrape_and_store (lines 251-261) and db_cache_fetch (lines 263-275).    *)
(***************************************************************************)
DbCacheFetch ==
    /\ pc = "load"
    /\ IF load_raises(file) # "none"
       THEN /\ exc' = load_raises(file)
            /\ pc' = "raised"
            /\ UNCHANGED <<data_cache, baseline, merged, page_num>>
       ELSE IF ~RecordsAccepted(load_from_json(file))
            THEN /\ exc' = "AssertionError"
                 /\ pc' = "raised"
                 /\ UNCHANGED <<data_cache, baseline, merged, page_num>>
            ELSE /\ data_cache' = DictFromList(load_from_json(file))
                 /\ baseline' = data_cache'
                 /\ merged' = data_cache'
                 /\ page_num' = 1
                 /\ pc' = "page"
                 /\ exc' = exc
    /\ UNCHANGED <<x_token, pages, file, max_retries, retries, html, products,
                   idx, notifications, events, stats, sightings,
                   dlRequests, dlAttempts, failedPages, fetchedTitles, saves,
                   pass, afterFirst>>

\* for page_num in range(1, pages + 1): html = self.scraper.fetch_page(page_url)
StartPage ==
    /\ pc = "page"
    /\ page_num <= pages
    /\ max_retries' = DefaultMaxRetries
    /\ retries' = 0
    /\ events' = <<>>
    /\ pc' = "fetch"
    /\ UNCHANGED <<x_token, pages, file, data_cache, page_num, html, products,
                   idx, notifications, exc, stats, sightings, dlRequests,
                   dlAttempts, failedPages, fetchedTitles, merged, saves,
                   baseline, pass, afterFirst>>

\* data = self.db_cache_to_dict(); self.storage.save_to_json(data)
Finalize ==
    /\ pc = "page"
    /\ page_num > pages
    /\ IF RecordsAccepted(db_cache_to_dict(data_cache))
       THEN /\ file' = save_to_json(db_cache_to_dict(data_cache))
            /\ saves' = saves + 1
            /\ pc' = "done"
            /\ exc' = exc
       ELSE /\ exc' = "AssertionError"
            /\ pc' = "raised"
            /\ UNCHANGED <<file, saves>>
    /\ UNCHANGED <<x_token, pages, data_cache, page_num, max_retries, retries,
                   html, products, idx, notifications, events, stats,
                   sightings, dlRequests, dlAttempts, failedPages,
                   fetchedTitles, merged, baseline, pass, afterFirst>>

(***************************************************************************)
(* Scraper.fetch_page (lines 63-82).                                       *)
(***************************************************************************)
\* Faulty variant: one attempt too many.
MoreRetriesOffByOne(r, m) == r <= m
MoreRetries(r, m) == r < m                          \* while retries < max_retries

\* What one pass through the loop body leaves in the history: the GET and,
\* in the else branch of the status test only, time.sleep(self.retry_delay).
\* Faulty variant: the sleep follows the status test instead of being in its
\* else branch.
AttemptEventsSleepAlways(outcome) ==
    CASE outcome = "200" -> <<"get_200", "sleep">>
      [] outcome = "non200" -> <<"get_non200", "sleep">>
      [] outcome = "exception" -> <<"get_exception">>
AttemptEvents(outcome) ==
    CASE outcome = "200" -> <<"get_200">>
      [] outcome = "non200" -> <<"get_non200", "sleep">>
      [] outcome = "exception" -> <<"get_exception">>

FetchAttempt ==
    /\ pc = "fetch"
    /\ MoreRetries(retries, max_retries)
    /\ \E outcome \in {"200", "non200", "exception"} :
        /\ events' = events \o AttemptEvents(outcome)
        /\ IF outcome = "200"
           THEN /\ \E c \in PageContents :
                       html' = [none |-> FALSE, ul |-> c.ul, lis |-> c.lis]
                /\ retries' = retries
                /\ pc' = "fetched"
           ELSE /\ html' = html
                /\ retries' = retries + 1
                /\ pc' = pc
    /\ UNCHANGED <<x_token, pages, file, data_cache, page_num, max_retries,
                   products, idx, notifications, exc, stats, sightings,
                   dlRequests, dlAttempts, failedPages, fetchedTitles, merged,
                   saves, baseline, pass, afterFirst>>

\* The loop ends without a 200: return None.
FetchExhausted ==
    /\ pc = "fetch"
    /\ ~MoreRetries(retries, max_retries)
    /\ html' = NoneHtml
    /\ pc' = "fetched"
    /\ UNCHANGED <<x_token, pages, file, data_cache, page_num, max_retries,
                   retries, products, idx, notifications, exc, events, stats,
                   sightings, dlRequests, dlAttempts, failedPages,
                   fetchedTitles, merged, saves, baseline, pass, afterFirst>>

\* The assertions of db_cache_extend on its argument (lines 283-289).
ProductsAccepted(list) ==
    \A i \in 1..Len(list) : IsFloat(list[i].product_price)

\* if html: products_info = self.scraper.scrape_product_info(html), then
\* db_cache_extend checks its argument.  Otherwise the page is skipped.
\* fetch_page's locals end with the call.
AfterFetch ==
    /\ pc = "fetched"
    /\ retries' = 0
    /\ events' = <<>>
    /\ html' = NoneHtml
    /\ IF html.none
       THEN /\ failedPages' = failedPages \cup {page_num}
            /\ page_num' = page_num + 1
            /\ pc' = "page"
            /\ UNCHANGED <<products, idx, exc, fetchedTitles>>
       ELSE LET r == scrape_product_info(html)
            IN /\ fetchedTitles' =
                      fetchedTitles \cup {html.lis[i].title : i \in 1..Len(html.lis)}
               /\ IF r.raised # "none" \/ ~ProductsAccepted(r.products)
                  THEN /\ exc' = IF r.raised # "none" THEN r.raised
                                 ELSE "AssertionError"
                       /\ pc' = "raised"
                       /\ UNCHANGED <<products, idx>>
                  ELSE /\ products' = r.products
                       /\ idx' = 1
                       /\ pc' = "extend"
                       /\ exc' = exc
               /\ UNCHANGED <<failedPages, page_num>>
    /\ UNCHANGED <<x_token, pages, file, data_cache, max_retries, notifications,
                   stats, sightings, dlRequests, dlAttempts, merged, saves,
                   baseline, pass, afterFirst>>

(***************************************************************************)
(* ScrapingManager.db_cache_extend (lines 290-297), one product per step.  *)
(***************************************************************************)
\* Faulty variant: the image is fetched whether or not the title is cached.
NeedsDownloadAlways(cache, title) == TRUE
NeedsDownload(cache, title) == ~HasKey(cache, title)   \* line 294

\* Faulty variants of line 297: the whole entry is rewritten with the scraped
\* image reference; the price is written at insert time only.
UpdatePriceReplacesEntry(cache, title, price) ==
    DictSet(cache, title, price, ImageSrc)
UpdatePriceOmitted(cache, title, price) == cache

\* self.data_cache[product_title][0] = product_price (line 297)
UpdatePrice(cache, title, price) ==
    [cache EXCEPT ![IndexOf(cache, title)].price = price]

\* Lines 296-297 for a title whose image was downloaded to path.
InsertProduct(cache, title, price, path) ==
    UpdatePrice(DictSet(cache, title, price, path), title, price)

\* What the step on a product does to the catalogue, had it no download to do.
Kind(cache, product) ==
    IF ~HasKey(cache, product.product_title) THEN "insert"
    ELSE IF PriceOf(cache, product.product_title) # product.product_price
         THEN "update" ELSE "skip"

Count(st, kind) ==
    CASE kind = "insert" -> [st EXCEPT !.inserts = @ + 1]
      [] kind = "update" -> [st EXCEPT !.updates = @ + 1]
      [] kind = "skip" -> [st EXCEPT !.skips = @ + 1]

ExtendStep ==
    /\ pc = "extend"
    /\ idx <= Len(products)
    /\ LET product == products[idx]
           title == product.product_title
           price == product.product_price
           img == product.image_src
       IN /\ sightings' = Append(sightings, [title |-> title, price |-> price,
                                              page |-> page_num, pos |-> idx])
          /\ IF NeedsDownload(data_cache, title)
             THEN /\ dlRequests' = [dlRequests EXCEPT ![title] = @ + 1]
                  /\ IF ~DownloadResolves
                     THEN \* AttributeError: the instance has no download_image
                          /\ exc' = "AttributeError"
                          /\ pc' = "raised"
                          /\ UNCHANGED <<data_cache, idx, stats, dlAttempts>>
                     ELSE \* requests.get(url, stream=True); r.raise_for_status()
                          /\ dlAttempts' = [dlAttempts EXCEPT ![title] = @ + 1]
                          /\ \E ok \in BOOLEAN :
                              IF ok
                              THEN /\ data_cache' =
                                         InsertProduct(data_cache, title, price,
                                                       ImagePath(img, title))
                                   /\ stats' = Count(stats, "insert")
                                   /\ idx' = idx + 1
                                   /\ UNCHANGED <<pc, exc>>
                              ELSE /\ exc' = "HTTPError"
                                   /\ pc' = "raised"
                                   /\ UNCHANGED <<data_cache, idx, stats>>
             ELSE /\ data_cache' = UpdatePrice(data_cache, title, price)
                  /\ stats' = Count(stats, Kind(data_cache, product))
                  /\ idx' = idx + 1
                  /\ UNCHANGED <<pc, exc, dlRequests, dlAttempts>>
    /\ UNCHANGED <<x_token, pages, file, page_num, max_retries, retries, html,
                   products, notifications, events, failedPages, fetchedTitles,
                   merged, saves, baseline, pass, afterFirst>>

\* Faulty variant: the catalogue is saved after every page as well.
ExtendReturnSaves ==
    /\ pc = "extend"
    /\ pass = 0
    /\ idx > Len(products)
    /\ notifications' =
           Append(notifications, [count |-> Len(products), page |-> page_num])
    /\ merged' = data_cache
    /\ page_num' = page_num + 1
    /\ products' = <<>>
    /\ idx' = 0
    /\ stats' = ZeroStats
    /\ pc' = "page"
    /\ file' = save_to_json(db_cache_to_dict(data_cache))
    /\ saves' = saves + 1
    /\ UNCHANGED <<x_token, pages, data_cache, max_retries, retries, html,
                   exc, events, sightings, dlRequests, dlAttempts, failedPages,
                   fetchedTitles, baseline, pass, afterFirst>>

\* db_cache_extend returns: notify(f"{len(products_info)} products scraped
\* from page {page_num}."), time.sleep(1), next page (lines 258-259).
ExtendReturn ==
    /\ pc = "extend"
    /\ pass = 0
    /\ idx > Len(products)
    /\ notifications' =
           Append(notifications, [count |-> Len(products), page |-> page_num])
    /\ merged' = data_cache
    /\ page_num' = page_num + 1
    /\ products' = <<>>
    /\ idx' = 0
    /\ stats' = ZeroStats
    /\ pc' = "page"
    /\ UNCHANGED <<x_token, pages, file, data_cache, max_retries, retries, html,
                   exc, events, sightings, dlRequests, dlAttempts, failedPages,
                   fetchedTitles, saves, baseline, pass, afterFirst>>

Next ==
    \/ ReadItems
    \/ DbCacheFetch
    \/ StartPage
    \/ FetchAttempt
    \/ FetchExhausted
    \/ AfterFetch
    \/ ExtendStep
    \/ ExtendReturn
    \/ Finalize

Spec == Init /\ [][Next]_vars

(***************************************************************************)
(* fetch_page on its own, for every max_retries up to MaxRetriesArg.       *)
(***************************************************************************)
InitFetch ==
    /\ pc = "fetch"
    /\ max_retries \in 0..MaxRetriesArg
    /\ x_token = StaticToken
    /\ pages = 1
    /\ file = [kind |-> "absent", data |-> <<>>]
    /\ data_cache = <<>>
    /\ page_num = 1
    /\ retries = 0
    /\ html = NoneHtml
    /\ products = <<>>
    /\ idx = 0
    /\ pass = 0
    /\ History0

NextFetch == FetchAttempt \/ FetchExhausted

SpecFetch == InitFetch /\ [][NextFetch]_vars

(***************************************************************************)
(* db_cache_extend called twice with the same list: the second call works  *)
(* on the catalogue the first one left.                                    *)
(***************************************************************************)
InitTwice ==
    /\ pc = "extend"
    /\ data_cache \in Catalogues
    /\ products \in ProductLists
    /\ idx = 1
    /\ pass = 1
    /\ x_token = StaticToken
    /\ pages = 1
    /\ file = [kind |-> "absent", data |-> <<>>]
    /\ page_num = 1
    /\ max_retries = DefaultMaxRetries
    /\ retries = 0
    /\ html = NoneHtml
    /\ History0

SecondPass ==
    /\ pc = "extend"
    /\ pass = 1
    /\ idx > Len(products)
    /\ afterFirst' = data_cache
    /\ pass' = 2
    /\ idx' = 1
    /\ stats' = ZeroStats
    /\ UNCHANGED <<pc, x_token, pages, file, data_cache, page_num, max_retries,
                   retries, html, products, notifications, exc, events,
                   sightings, dlRequests, dlAttempts, failedPages,
                   fetchedTitles, merged, saves, baseline>>

TwiceDone ==
    /\ pc = "extend"
    /\ pass = 2
    /\ idx > Len(products)
    /\ pc' = "twice_done"
    /\ UNCHANGED <<x_token, pages, file, data_cache, page_num, max_retries,
                   retries, html, products, idx, notifications, exc, events,
                   stats, sightings, dlRequests, dlAttempts, failedPages,
                   fetchedTitles, merged, saves, baseline, pass, afterFirst>>

NextTwice == ExtendStep \/ SecondPass \/ TwiceDone

SpecTwice == InitTwice /\ [][NextTwice]_vars

(***************************************************************************)
(* scrape_product_info on its own, on pages whose listing entries may lack *)
(* the title, the image or the price element, or carry a price text with   *)
(* the "Starting at:" prefix, without the currency symbol, or with a       *)
(* numeric portion that is empty or not a number ("x").                    *)
(***************************************************************************)
ParsePriceTexts ==
    {[present |-> FALSE, starting |-> FALSE, symbol |-> FALSE, num |-> ""]}
        \cup [present : {TRUE}, starting : BOOLEAN, symbol : BOOLEAN,
              num : {"", "1", "x"}]
ParseLis == [title : {"A", ""}, img : {ImageSrc, ""}, price : ParsePriceTexts]
ParseContents ==
    {[none |-> FALSE, ul |-> FALSE, lis |-> <<>>]}
        \cup {[none |-> FALSE, ul |-> TRUE, lis |-> s] :
                 s \in SeqsUpTo(ParseLis, MaxProducts)}

InitParse ==
    /\ pc = "fetched"
    /\ html \in ParseContents
    /\ x_token = StaticToken
    /\ pages = 1
    /\ file = [kind |-> "absent", data |-> <<>>]
    /\ data_cache = <<>>
    /\ page_num = 1
    /\ max_retries = DefaultMaxRetries
    /\ retries = 0
    /\ products = <<>>
    /\ idx = 0
    /\ pass = 0
    /\ History0

NextParse == AfterFetch

SpecParse == InitParse /\ [][NextParse]_vars

(***************************************************************************)
(* Properties.                                                             *)
(***************************************************************************)
AtProduct == pc = "extend" /\ idx <= Len(products)
CurTitle == products[idx].product_title
CurPrice == products[idx].product_price
Ended == pc \in {"done", "raised"}
FileTitles == {file.data[i].product_title : i \in 1..Len(file.data)}

\* C1: a reconcile step on a product whose title is in the catalogue with the
\* scraped price triggers no image download and leaves the catalogue (every
\* price and image path) as it was.
C1_UnchangedPriceIsNoOp ==
    [][(AtProduct /\ HasKey(data_cache, CurTitle)
            /\ PriceOf(data_cache, CurTitle) = CurPrice)
         => (data_cache' = data_cache /\ dlRequests' = dlRequests
                /\ dlAttempts' = dlAttempts /\ exc' = "none")]_vars

\* A skip has happened: the product before idx was cached at its scraped price.
C1_Witness ==
    /\ pc = "extend" /\ pass = 0 /\ idx > 1 /\ stats.skips > 0
    /\ HasKey(baseline, products[idx - 1].product_title)

\* C2: every title absent from the baseline that is scraped in a session gets
\* exactly one image download attempt, and is in the final catalogue with the
\* path that download returned.
C2_NewTitleDownloadedOnce ==
    Ended =>
        \A i \in 1..Len(sightings) :
            LET t == sightings[i].title
            IN ~HasKey(baseline, t) =>
                   /\ dlAttempts[t] = 1
                   /\ pc = "done"
                   /\ t \in FileTitles
                   /\ \E j \in 1..Len(file.data) :
                          /\ file.data[j].product_title = t
                          /\ file.data[j].path_to_image = ImagePath(ImageSrc, t)

\* C3: a step of the session never changes the image path of a title that is
\* in the catalogue, and a sighting of a cached title at a different price
\* changes the price of that entry and nothing else, without a download.
C3_PriceOnlyUpdate ==
    [][/\ pc # "load" =>
            \A t \in Keys(data_cache) :
                /\ HasKey(data_cache', t)
                /\ PathOf(data_cache', t) = PathOf(data_cache, t)
       /\ (AtProduct /\ HasKey(data_cache, CurTitle)
               /\ PriceOf(data_cache, CurTitle) # CurPrice)
            => /\ Len(data_cache') = Len(data_cache)
               /\ \A i \in 1..Len(data_cache) :
                      /\ data_cache'[i].title = data_cache[i].title
                      /\ data_cache'[i].path = data_cache[i].path
                      /\ data_cache'[i].price =
                             IF data_cache[i].title = CurTitle
                             THEN CurPrice ELSE data_cache[i].price
               /\ dlRequests' = dlRequests
               /\ dlAttempts' = dlAttempts]_vars

\* A price update has happened and the entry still has its baseline path.
C3_Witness ==
    /\ pc = "extend" /\ pass = 0 /\ idx > 1 /\ stats.updates > 0
    /\ LET t == products[idx - 1].product_title
       IN /\ HasKey(baseline, t)
          /\ PriceOf(baseline, t) # PriceOf(data_cache, t)
          /\ PathOf(data_cache, t) = StoredPath(t)

SamePricePerTitle(list) ==
    \A i, j \in 1..Len(list) :
        list[i].product_title = list[j].product_title
            => list[i].product_price = list[j].product_price

IsGet(e) == e \in {"get_200", "get_non200", "get_exception"}
IsFailedGet(e) == e \in {"get_non200", "get_exception"}
Gets(evs) == Cardinality({i \in 1..Len(evs) : IsGet(evs[i])})

\* C5: fetch_page never makes more than max_retries HTTP attempts and never
\* raises; when every attempt fails (status other than 200, or an exception)
\* it has made exactly max_retries attempts when it returns, and returns None.
C5_RetryBound ==
    /\ Gets(events) <= max_retries
    /\ exc = "none"
    /\ pc \in {"fetch", "fetched"}
    /\ (pc = "fetched" /\ \A i \in 1..Len(events) : events[i] # "get_200")
         => (html.none /\ Gets(events) = max_retries)

\* fetch_page has returned None after failures of both kinds.
C5_Witness ==
    /\ pc = "fetched" /\ html.none /\ max_retries = DefaultMaxRetries
    /\ \E i, j \in 1..Len(events) :
           events[i] = "get_non200" /\ events[j] = "get_exception"

\* C6: in fetch_page a failed attempt of either kind that is followed by
\* another attempt is separated from it by one wait of the retry delay.
C6_WaitBetweenAttempts ==
    \A i \in 1..Len(events) :
        (IsFailedGet(events[i]) /\ \E j \in (i + 1)..Len(events) : IsGet(events[j]))
            => (events[i + 1] = "sleep" /\ IsGet(events[i + 2]))

ParseError == exc \in {"IndexError", "ValueError"}

\* C7: when the fetch of a page has failed, the session still ends in the
\* final save, with no exception, and the saved catalogue has the products
\* of every page that was fetched.
C7_FailedFetchSkipsPage ==
    (Ended /\ failedPages # {} /\ ~ParseError) =>
        /\ pc = "done"
        /\ exc = "none"
        /\ fetchedTitles \subseteq FileTitles

\* C8: whatever error ends the processing of a page, the session reaches its
\* final save and the saved catalogue holds what the earlier pages merged.
C8_MergedPagesAreSaved ==
    (Ended /\ merged # baseline) =>
        /\ saves = 1
        /\ file = save_to_json(db_cache_to_dict(data_cache))
        /\ \A i \in 1..Len(merged) :
               \E j \in 1..Len(file.data) :
                   /\ file.data[j].product_title = merged[i].title
                   /\ file.data[j].product_price = merged[i].price

\* C9: when the image download for a new title fails, the title is inserted
\* with its scraped price and an empty image path, and the reconciliation
\* goes on with the next product of the page.
C9_DownloadFailureDegrades ==
    [][(AtProduct /\ NeedsDownload(data_cache, CurTitle)
            /\ (~DownloadResolves \/ exc' = "HTTPError"))
         => /\ pc' = "extend"
            /\ idx' = idx + 1
            /\ HasKey(data_cache', CurTitle)
            /\ PriceOf(data_cache', CurTitle) = CurPrice
            /\ PathOf(data_cache', CurTitle) = ""]_vars

Before(s1, s2) ==
    s1.page < s2.page \/ (s1.page = s2.page /\ s1.pos < s2.pos)
SightingsOf(t) == {i \in 1..Len(sightings) : sightings[i].title = t}
Latest(S) == CHOOSE i \in S : \A j \in S : j = i \/ Before(sightings[j], sightings[i])

\* C10: the titles of the catalogue are distinct, and the price of each is
\* the price of its latest sighting of the session, by page number and then
\* by position in the page, or its baseline price when it was not sighted.
C10_LatestPriceWins ==
    /\ UniqueKeys(data_cache)
    /\ pc \notin {"request", "load"} =>
          \A t \in Keys(data_cache) :
              IF SightingsOf(t) = {}
              THEN HasKey(baseline, t)
                      /\ PriceOf(data_cache, t) = PriceOf(baseline, t)
              ELSE /\ \E i \in SightingsOf(t) :
                          \A j \in SightingsOf(t) :
                              j = i \/ Before(sightings[j], sightings[i])
                   /\ PriceOf(data_cache, t) = sightings[Latest(SightingsOf(t))].price

\* A title was sighted on page 1 and again, at another price, on page 2, and
\* another title of the catalogue was not sighted at all.
C10_Witness ==
    /\ pc = "done"
    /\ \E i, j \in 1..Len(sightings) :
           /\ sightings[i].title = sightings[j].title
           /\ sightings[i].page = 1 /\ sightings[j].page = 2
           /\ sightings[i].price # sightings[j].price
           /\ PriceOf(data_cache, sightings[j].title) = sightings[j].price
    /\ \E t \in Keys(data_cache) : SightingsOf(t) = {}

IsSummary(msg) == {"inserted", "updated"} \subseteq DOMAIN msg

\* C12: a session that has ended has sent exactly one session summary, with
\* the numbers of products inserted and updated over all its pages.
C12_OneSummaryNotification ==
    pc = "done" =>
        Cardinality({i \in 1..Len(notifications) : IsSummary(notifications[i])}) = 1

\* C13: no step removes a title from the working catalogue, and the saved
\* catalogue has every title of the baseline and of the working catalogue.
C13_NoTitleRemoved ==
    /\ [][Keys(data_cache) \subseteq Keys(data_cache')]_vars
    /\ [](pc = "done" =>
             (Keys(baseline) \cup Keys(data_cache)) \subseteq FileTitles)

\* A session over a baseline of two titles has reconciled products and saved.
C13_Witness ==
    pc = "done" /\ Len(baseline) = 2 /\ sightings # <<>>

\* C14: load_from_json never raises: db_cache_fetch goes on to the pages,
\* with an empty catalogue when the file is absent, not decodable or holds
\* a record that fails validation, and with the stored records otherwise.
C14_LoadNeverRaises ==
    [][pc = "load" =>
          /\ pc' = "page"
          /\ exc' = "none"
          /\ data_cache' =
                 IF file.kind = "list" /\ \A i \in 1..Len(file.data) : ItemValid(file.data[i])
                 THEN DictFromList([i \in 1..Len(file.data) |-> LoadedItem(file.data[i])])
                 ELSE <<>>]_vars

\* The credential differs from the configured one, or pages is not in 1..119.
RequestInvalid ==
    \/ x_token # StaticToken
    \/ pages < PagesGe
    \/ pages >= PagesLt

\* C15: a request with a wrong credential or with pages outside 1..119 is
\* rejected with nothing done: the store is neither read nor written, no
\* page is fetched, no image is requested and nothing is notified.
C15_RejectedBeforeWork ==
    /\ [](RequestInvalid =>
             /\ pc \in {"request", "rejected"}
             /\ saves = 0
             /\ data_cache = <<>>
             /\ events = <<>>
             /\ notifications = <<>>
             /\ failedPages = {}
             /\ fetchedTitles = {}
             /\ \A t \in Titles : dlRequests[t] = 0 /\ dlAttempts[t] = 0)
    /\ [][RequestInvalid => file' = file]_vars

\* A request with a wrong credential and a valid page count was rejected.
C15_Witness ==
    /\ pc = "rejected"
    /\ x_token # StaticToken
    /\ PagesGe <= pages /\ pages < PagesLt
    /\ file.kind = "list" /\ file.data # <<>>

\* The price the parser is to give for a price element: the number after the
\* currency symbol, and 0.0 in every other case.
DegradedPrice(price) ==
    IF price.present /\ price.symbol /\ IsNumber(price.num)
    THEN NumValue(price.num) ELSE 0

\* C16: scrape_product_info never fails: a page without the listing gives the
\* empty list, and every listing entry gives a product with its title, its
\* image and its price, a missing or malformed price being 0.0.
C16_ParseNeverFails ==
    [][(pc = "fetched" /\ ~html.none) =>
          /\ pc' = "extend"
          /\ exc' = "none"
          /\ Len(products') = Len(html.lis)
          /\ \A i \in 1..Len(html.lis) :
                 /\ products'[i].product_title = html.lis[i].title
                 /\ products'[i].image_src = html.lis[i].img
                 /\ products'[i].product_price = DegradedPrice(html.lis[i].price)]_vars

Got200(evs) == {i \in 1..Len(evs) : evs[i] = "get_200"}

\* C17: fetch_page returns content exactly when one of its at most
\* max_retries attempts got status 200; that attempt is the first with
\* status 200 and the last thing fetch_page did: no attempt and no wait
\* follows it.
C17_ContentIffStatus200 ==
    /\ pc = "fetch" => (Got200(events) = {} /\ html.none)
    /\ pc = "fetched" =>
          /\ ~html.none <=> Got200(events) # {}
          /\ ~html.none =>
                /\ Got200(events) = {Len(events)}
                /\ Gets(events) <= max_retries

\* The last of three attempts got status 200, after failures of both kinds.
C17_Witness ==
    /\ pc = "fetched" /\ ~html.none /\ html.ul /\ html.lis # <<>>
    /\ max_retries = DefaultMaxRetries
    /\ events = <<"get_exception", "get_non200", "sleep", "get_200">>

\* C18: the file a session saves loads back as the records that were saved,
\* in their order, so that the catalogue db_cache_fetch would build from it
\* is the final catalogue of the session.
C18_SaveLoadRoundTrip ==
    pc = "done" =>
        /\ load_raises(file) = "none"
        /\ load_from_json(file) = db_cache_to_dict(data_cache)
        /\ DictFromList(load_from_json(file)) = data_cache

\* A session has saved a catalogue of two titles with a price it changed.
C18_Witness ==
    /\ pc = "done" /\ Len(data_cache) = 2
    /\ \E t \in Keys(data_cache) : PriceOf(data_cache, t) # PriceOf(baseline, t)

UniqueTitles(data) ==
    \A i, j \in 1..Len(data) :
        data[i].product_title = data[j].product_title => i = j

\* C19: when the fetch of every page has failed, the save writes the
\* catalogue that was loaded (for stored records with distinct titles: the
\* same records in the same order), and the session has requested no image
\* and sent no notification.
C19_AllFetchesFailKeepsBaseline ==
    [][(pc = "page" /\ page_num > pages /\ failedPages = 1..pages) =>
          /\ pc' = "done"
          /\ data_cache = baseline
          /\ file' = save_to_json(db_cache_to_dict(baseline))
          /\ UniqueTitles(load_from_json(file)) =>
                 load_from_json(file') = load_from_json(file)
          /\ notifications' = <<>>
          /\ \A t \in Titles : dlRequests'[t] = 0 /\ dlAttempts'[t] = 0]_vars

\* Two pages have failed and a baseline of two titles has been saved.
C19_Witness ==
    /\ pc = "done" /\ pages = 2 /\ failedPages = {1, 2}
    /\ Len(baseline) = 2 /\ saves = 1

\* C20: no assertion of the pipeline fails: the loaded records, the parsed
\* products and the records handed to save_to_json all have float prices,
\* and every record of a saved file passes the validation of load_from_json.
C20_AssertionsHold ==
    /\ pc = "raised" => exc # "AssertionError"
    /\ ProductsAccepted(products)
    /\ RecordsAccepted(db_cache_to_dict(data_cache))
    /\ pc = "done" =>
          /\ \A i \in 1..Len(file.data) : ItemValid(file.data[i])
          /\ Len(load_from_json(file)) = Len(data_cache)

\* A session that loaded records and reconciled parsed products has saved.
C20_Witness ==
    /\ pc = "done" /\ baseline # <<>> /\ sightings # <<>>
    /\ file.data # <<>>

====
